---- MODULE Spec2Model ----
(***************************************************************************)
(* Model of the per-channel announcement scheduler of main.py:             *)
(* the registry CHANNEL_STATES of BotState objects, the command handlers   *)
(* that write it, the on_message observer, and the send_scheduled_message  *)
(* tick with its two suspension points (generation and dispatch).          *)
(*                                                                         *)
(* asyncio runs a handler without interruption between two awaits.  The    *)
(* tick is therefore cut into steps, and while it is inside a synchronous  *)
(* stretch (pc = "loop") no other action is enabled; commands, messages,   *)
(* channel deletion and the clock move only while the tick is idle or      *)
(* suspended in an await (pc = "gen" or "send").                           *)
(***************************************************************************)
EXTENDS Integers, Sequences, FiniteSets, TLC

VARIABLES
    now,            \* the value time.time() returns
    GEMINI_API_KEY, \* whether the credential is configured (fixed at start)
    CHANNEL_STATES, \* the registry: channel id -> BotState, or Absent
    keyOrder,       \* insertion order of the registry's keys (dict order)
    exists,         \* channels client.get_channel can resolve
    pc,             \* position of the tick: idle, loop, gen, send, or stopped
                    \* (an exception left the function and ended the loop)
    queue,          \* part of the tick's snapshot not yet finished (head = current)
    orphan,         \* snapshot objects that are no longer the registry's object
    msg,            \* message_to_send of the tick
    event,          \* what the step just taken did, if it was a step of the tick,
                    \* a command that was refused, or a message seen during a send
    commands,       \* number of commands so far that changed the registry or
                    \* started a /test run
    call,           \* a call of one of the gateway functions, and what it returned
    test            \* the /test handler: where it is, and the message it sends

vars == <<now, GEMINI_API_KEY, CHANNEL_STATES, keyOrder, exists, pc, queue,
          orphan, msg, event, commands, call, test>>

---------------------------------------------------------------------------
\* Bounds of the model

\* last clock value the model lets time reach
MaxTime == 20

\* number of commands in one run that change the registry or start a /test
MaxCommands == 2

\* amounts by which the clock moves between two reads
ClockSteps == {10}

\* channel ids
Channels == {1, 2}

\* message texts a user passes to /manual
Messages == {"hello"}

---------------------------------------------------------------------------
\* Values

NoMsg == "NoMsg"

NoEvent == [kind |-> "none", ch |-> 0]

\* the /test handler is not running
NoTest == [pc |-> "idle", ch |-> 0, msg |-> NoMsg]

Event(kind, c) == [kind |-> kind, ch |-> c]

\* BotState.__init__: both timestamps are the construction time, interval 0
BotState(channel_id, t) ==
    [ scheduled_channel_id       |-> channel_id,
      last_channel_activity_time |-> t,
      last_bot_send_time         |-> t,
      scheduled_message_content  |-> "",
      is_automatic               |-> FALSE,
      ai_prompt                  |-> "",
      interval_seconds           |-> 0,
      ignore_stack_logic         |-> FALSE ]

\* no object: the value of a registry slot whose key is not in the dict, and
\* of an orphan slot that holds nothing (channel ids start at 1)
Absent == BotState(0, 0)

NoObj == BotState(0, 0)

Registered(c) == CHANNEL_STATES[c] # Absent

\* a later read of the clock in the same handler: the same value or a later one
LaterReads(t) == {t} \cup {t + d : d \in {e \in ClockSteps : t + e <= MaxTime}}

\* keys of a Python dict after deleting k
Without(s, k) == SelectSeq(s, LAMBDA x : x # k)

\* keys of a Python dict after assigning to key k
WithKey(s, k) == IF \E i \in 1..Len(s) : s[i] = k THEN s ELSE Append(s, k)

InSeq(s, k) == \E i \in 1..Len(s) : s[i] = k

\* the tick may be interleaved with other handlers only at an await
Interleavable == pc \in {"idle", "gen", "send", "stopped"}

---------------------------------------------------------------------------
\* Python values that cross the gateway: JSON values, None, raised exceptions

Dict(f) == [t |-> "dict", v |-> f]

List(s) == [t |-> "list", v |-> s]

Str(s) == [t |-> "str", v |-> s]

Num(n) == [t |-> "num", v |-> n]

None == [t |-> "none", v |-> 0]

Exc(name) == [t |-> "exc", v |-> name]

IsExc(x) == x.t = "exc"

\* d.get(k, default): AttributeError unless d is a dict
PyGet(d, k, default) ==
    IF IsExc(d) THEN d
    ELSE IF d.t = "dict"
         THEN IF k \in DOMAIN d.v THEN d.v[k] ELSE default
         ELSE Exc("AttributeError")

\* x[0]; the keys of a JSON object are strings, so 0 is never one
PyIndex0(x) ==
    IF IsExc(x) THEN x
    ELSE CASE x.t = "list" -> IF Len(x.v) = 0 THEN Exc("IndexError") ELSE x.v[1]
           [] x.t = "dict" -> Exc("KeyError")
           [] x.t = "str"  -> IF x.v = "" THEN Exc("IndexError") ELSE Str("c")
           [] OTHER        -> Exc("TypeError")

\* bool(x) of Python
Truthy(x) ==
    CASE x.t = "none" -> FALSE
      [] x.t = "str"  -> x.v # ""
      [] x.t = "num"  -> x.v # 0
      [] x.t = "list" -> Len(x.v) # 0
      [] x.t = "dict" -> DOMAIN x.v # {}
      [] OTHER        -> TRUE

\* result.get('candidates', [{}])[0].get('content', {}).get('parts', [{}])[0].get('text', default)
ExtractText(result, default) ==
    LET emptyDict  == Dict(<<>>)
        candidates == PyGet(result, "candidates", List(<<emptyDict>>))
        content    == PyGet(PyIndex0(candidates), "content", emptyDict)
        parts      == PyGet(content, "parts", List(<<emptyDict>>))
    IN  PyGet(PyIndex0(parts), "text", default)

\* a 200 body whose candidates[0].content.parts[0] is the given part
BodyWithPart(part) ==
    Dict([candidates |-> List(<<Dict([content |-> Dict([parts |-> List(<<part>>)])])>>)])

BodyWithText(s) == BodyWithPart(Dict([text |-> Str(s)]))

\* bodies the upstream service may answer a 200 with (parsed by response.json())
Bodies ==
    { BodyWithText("generated"),
      Dict(<<>>),
      Dict([candidates |-> List(<<>>)]),
      Dict([candidates |-> None]),
      Dict([candidates |-> List(<<None>>)]),
      BodyWithPart(Dict(<<>>)),
      List(<<>>) }

\* status codes the upstream service may answer with
Statuses == {200, 429, 404, 500}

\* what one attempt of session.post can meet besides a response: the
\* connection cannot be made (ClientConnectorError), the request times out
\* (asyncio.TimeoutError, no subclass of ClientConnectorError), or another
\* exception (a body that is no JSON)
Failures ==
    {[kind |-> k, status |-> 0, body |-> None] :
        k \in {"ClientConnectorError", "TimeoutError", "Exception"}}

\* one attempt of session.post: a response or a failure
Outcomes ==
    {[kind |-> "response", status |-> 200, body |-> b] : b \in Bodies}
    \cup {[kind |-> "response", status |-> s, body |-> None] : s \in Statuses \ {200}}
    \cup Failures

max_retries == 3

\* a wait that grows by one second per attempt instead of doubling
LinearWait(n) == n + 1

RECURSIVE Pow2(_)
\* 2 ** n
Pow2(n) == IF n = 0 THEN 1 ELSE 2 * Pow2(n - 1)

RECURSIVE FetchRetryingEveryStatus(_, _, _)
\* the loop with every status other than 200 retried like a 429
FetchRetryingEveryStatus(script, attempt, slept) ==
    IF attempt >= max_retries
    THEN [result |-> None,
          error |-> Str("Error: Failed to connect to AI service after multiple retries."),
          requests |-> attempt, sleeps |-> slept]
    ELSE LET o == script[attempt + 1] IN
         CASE o.kind = "response" /\ o.status = 200 ->
                [result |-> o.body, error |-> None,
                 requests |-> attempt + 1, sleeps |-> slept]
           [] o.kind = "response" /\ o.status # 200 ->
                FetchRetryingEveryStatus(script, attempt + 1, Append(slept, Pow2(attempt)))
           [] o.kind = "ClientConnectorError" ->
                FetchRetryingEveryStatus(script, attempt + 1, Append(slept, Pow2(attempt)))
           [] OTHER ->
                [result |-> None, error |-> Str("An unexpected error occurred"),
                 requests |-> attempt + 1, sleeps |-> slept]

RECURSIVE FetchFrom(_, _, _)
\* the loop of fetch_with_backoff from the given attempt on; script[attempt + 1]
\* is what that attempt's request meets, slept the waits made so far
FetchFrom(script, attempt, slept) ==
    IF attempt >= max_retries
    THEN [result |-> None,
          error |-> Str("Error: Failed to connect to AI service after multiple retries."),
          requests |-> attempt, sleeps |-> slept]
    ELSE LET o == script[attempt + 1] IN
         CASE o.kind = "response" /\ o.status = 200 ->
                [result |-> o.body, error |-> None,
                 requests |-> attempt + 1, sleeps |-> slept]
           [] o.kind = "response" /\ o.status = 429 ->
                FetchFrom(script, attempt + 1, Append(slept, Pow2(attempt)))
           [] o.kind = "response" /\ o.status \notin {200, 429} ->
                [result |-> None,
                 error |-> Str("Error: AI service returned status " \o ToString(o.status)),
                 requests |-> attempt + 1, sleeps |-> slept]
           [] o.kind = "ClientConnectorError" ->
                FetchFrom(script, attempt + 1, Append(slept, Pow2(attempt)))
           [] OTHER ->
                [result |-> None, error |-> Str("An unexpected error occurred"),
                 requests |-> attempt + 1, sleeps |-> slept]

fetch_with_backoff(script) == FetchFrom(script, 0, <<>>)

\* the function without its first line: the service is called whether or not
\* the key is configured
GenerateWithoutKeyCheck(key, script) ==
    LET r == fetch_with_backoff(script) IN
    IF Truthy(r.error) THEN r.error
    ELSE LET text == ExtractText(r.result, Str("AI failed to generate a response."))
         IN  IF IsExc(text) /\ text.v \in {"IndexError", "KeyError", "TypeError"}
             THEN Str("Error: AI response was not in the expected format.")
             ELSE text

\* generate_announcement_content; the value returned, or the exception raised
generate_announcement_content(key, script) ==
    IF ~key THEN Str("Error: Gemini API Key not configured.")
    ELSE LET r == fetch_with_backoff(script) IN
         IF Truthy(r.error) THEN r.error
         ELSE LET text == ExtractText(r.result, Str("AI failed to generate a response."))
              IN  IF IsExc(text) /\ text.v \in {"IndexError", "KeyError", "TypeError"}
                  THEN Str("Error: AI response was not in the expected format.")
                  ELSE text

\* what the upstream service does over the attempts of one call
Scripts == [1..max_retries -> Outcomes]

\* everything a call of generate_announcement_content can come back with
GenerationResults(key) == {generate_announcement_content(key, s) : s \in Scripts}

---------------------------------------------------------------------------
\* The structured parse used by /automatic

\* json.loads on the texts the model lets the service answer with
json_loads(x) ==
    IF IsExc(x) THEN x
    ELSE IF x.t # "str" THEN Exc("TypeError")
    ELSE CASE x.v = "{\"announcement_prompt\": \"fact\", \"interval_seconds\": 20}" ->
                Dict([announcement_prompt |-> Str("fact"), interval_seconds |-> Num(20)])
           [] x.v = "{\"announcement_prompt\": \"fact\", \"interval_seconds\": 10}" ->
                Dict([announcement_prompt |-> Str("fact"), interval_seconds |-> Num(10)])
           [] x.v = "{\"announcement_prompt\": \"fact\", \"interval_seconds\": 5}" ->
                Dict([announcement_prompt |-> Str("fact"), interval_seconds |-> Num(5)])
           [] x.v = "{\"announcement_prompt\": \"fact\"}" ->
                Dict([announcement_prompt |-> Str("fact")])
           [] x.v = "{\"announcement_prompt\": \"\", \"interval_seconds\": 20}" ->
                Dict([announcement_prompt |-> Str(""), interval_seconds |-> Num(20)])
           [] x.v = "{\"announcement_prompt\": \"fact\", \"interval_seconds\": \"20\"}" ->
                Dict([announcement_prompt |-> Str("fact"), interval_seconds |-> Str("20")])
           [] x.v = "{}" -> Dict(<<>>)
           [] x.v = "[]" -> List(<<>>)
           [] OTHER -> Exc("JSONDecodeError")

\* texts the service may put in candidates[0].content.parts[0].text
ParseTexts ==
    { "{\"announcement_prompt\": \"fact\", \"interval_seconds\": 20}",
      "{\"announcement_prompt\": \"fact\", \"interval_seconds\": 10}",
      "{\"announcement_prompt\": \"fact\", \"interval_seconds\": 5}",
      "{\"announcement_prompt\": \"fact\"}",
      "{\"announcement_prompt\": \"\", \"interval_seconds\": 20}",
      "{\"announcement_prompt\": \"fact\", \"interval_seconds\": \"20\"}",
      "[]",
      "Sure! Here is the JSON" }

ParseBodies == {BodyWithText(s) : s \in ParseTexts} \cup {Dict(<<>>), List(<<>>)}

ParseOutcomes ==
    {[kind |-> "response", status |-> 200, body |-> b] : b \in ParseBodies}
    \cup {[kind |-> "response", status |-> s, body |-> None] : s \in Statuses \ {200}}
    \cup Failures

\* x < 10 of Python: TypeError unless x is a number
LessThan10(x) ==
    IF IsExc(x) THEN x
    ELSE IF x.t = "num" THEN [t |-> "bool", v |-> x.v < 10] ELSE Exc("TypeError")

\* d with d[k] = val
DictSet(d, k, val) ==
    Dict([key \in DOMAIN d.v \cup {k} |-> IF key = k THEN val ELSE d.v[key]])

CaughtByParse == {"IndexError", "KeyError", "TypeError", "JSONDecodeError"}

\* the parse without the minimum: the interval goes out as the service gave it
ParseWithoutFloor(key, script) ==
    IF ~key THEN [data |-> None, error |-> Str("Error: Gemini API Key not configured.")]
    ELSE LET r == fetch_with_backoff(script) IN
         IF Truthy(r.error) THEN [data |-> None, error |-> r.error]
         ELSE LET json_string == ExtractText(r.result, Str("{}"))
                  parsed_data == json_loads(json_string)
                  small       == LessThan10(PyGet(parsed_data, "interval_seconds", Num(0)))
              IN  IF IsExc(small)
                  THEN IF small.v \in CaughtByParse
                       THEN [data |-> None,
                             error |-> Str("Error: AI parser response was not in the expected format.")]
                       ELSE [data |-> small, error |-> None]
                  ELSE [data |-> parsed_data, error |-> None]

\* parse_automatic_prompt: the pair (parsed_data, error) returned, or the
\* exception raised (data |-> Exc(..))
parse_automatic_prompt(key, script) ==
    IF ~key THEN [data |-> None, error |-> Str("Error: Gemini API Key not configured.")]
    ELSE LET r == fetch_with_backoff(script) IN
         IF Truthy(r.error) THEN [data |-> None, error |-> r.error]
         ELSE LET json_string == ExtractText(r.result, Str("{}"))
                  parsed_data == json_loads(json_string)
                  small       == LessThan10(PyGet(parsed_data, "interval_seconds", Num(0)))
              IN  IF IsExc(small)
                  THEN IF small.v \in CaughtByParse
                       THEN [data |-> None,
                             error |-> Str("Error: AI parser response was not in the expected format.")]
                       ELSE [data |-> small, error |-> None]
                  ELSE IF small.v
                       THEN [data |-> DictSet(parsed_data, "interval_seconds", Num(10)),
                             error |-> None]
                       ELSE [data |-> parsed_data, error |-> None]

ParseScripts == [1..max_retries -> ParseOutcomes]

\* everything a call of parse_automatic_prompt can come back with
ParseResults(key) == {parse_automatic_prompt(key, s) : s \in ParseScripts}

\* a service that answers every attempt of a call the same way
Steady(o) == [i \in 1..max_retries |-> o]

\* what the service does during the calls made while the scheduler runs: it
\* answers with a text, with a body that is no JSON object, or with status 404
LiveScripts ==
    { Steady([kind |-> "response", status |-> 200, body |-> BodyWithText("generated")]),
      Steady([kind |-> "response", status |-> 200, body |-> List(<<>>)]),
      Steady([kind |-> "response", status |-> 404, body |-> None]) }

\* what it does during the parse of an /automatic request
LiveParseScripts ==
    { Steady([kind |-> "response", status |-> 200, body |->
          BodyWithText("{\"announcement_prompt\": \"fact\", \"interval_seconds\": 20}")]),
      Steady([kind |-> "response", status |-> 200, body |->
          BodyWithText("{\"announcement_prompt\": \"fact\", \"interval_seconds\": 5}")]),
      Steady([kind |-> "response", status |-> 200, body |->
          BodyWithText("{\"announcement_prompt\": \"\", \"interval_seconds\": 20}")]),
      Steady([kind |-> "response", status |-> 404, body |-> None]) }

\* computed once: what the two gateway calls come back with
GenerationWithKey == {generate_announcement_content(TRUE, s) : s \in LiveScripts}

GenerationWithoutKey == {generate_announcement_content(FALSE, s) : s \in LiveScripts}

ParseWithKey == {parse_automatic_prompt(TRUE, s) : s \in LiveParseScripts}

---------------------------------------------------------------------------
\* One call of a gateway function, looked at from outside: what the service
\* does during the call (script), the value the call comes back with, the
\* requests it has made and the waits it has slept

NoReturn == [value |-> None, requests |-> 0, sleeps |-> <<>>]

NoGatewayCall == [fn |-> "none", script |-> <<>>, done |-> FALSE, ret |-> NoReturn]

GatewayCall(fn, script) == [fn |-> fn, script |-> script, done |-> FALSE, ret |-> NoReturn]

\* requests and waits of generate_announcement_content and of
\* parse_automatic_prompt: both return before a session is opened when the key
\* is missing, and otherwise make the one call of fetch_with_backoff
Traffic(key, script) ==
    IF ~key THEN [requests |-> 0, sleeps |-> <<>>]
    ELSE [requests |-> fetch_with_backoff(script).requests,
          sleeps |-> fetch_with_backoff(script).sleeps]

\* the call under way is not the one named: nothing else of the program runs
GatewayFrame ==
    UNCHANGED <<now, GEMINI_API_KEY, CHANNEL_STATES, keyOrder, exists, pc, queue,
                orphan, msg, event, commands, test>>

\* fetch_with_backoff returns
FetchReturn ==
    /\ call.fn = "fetch"
    /\ ~call.done
    /\ LET r == fetch_with_backoff(call.script) IN
       call' = [call EXCEPT !.done = TRUE,
                            !.ret = [value |-> [result |-> r.result, error |-> r.error],
                                     requests |-> r.requests,
                                     sleeps |-> r.sleeps]]
    /\ GatewayFrame

\* generate_announcement_content returns (or raises)
GenerateReturn ==
    /\ call.fn = "generate"
    /\ ~call.done
    /\ call' = [call EXCEPT !.done = TRUE,
                            !.ret = [value |-> generate_announcement_content(
                                                  GEMINI_API_KEY, call.script),
                                     requests |-> Traffic(GEMINI_API_KEY, call.script).requests,
                                     sleeps |-> Traffic(GEMINI_API_KEY, call.script).sleeps]]
    /\ GatewayFrame

\* parse_automatic_prompt returns (or raises)
ParseReturn ==
    /\ call.fn = "parse"
    /\ ~call.done
    /\ call' = [call EXCEPT !.done = TRUE,
                            !.ret = [value |-> parse_automatic_prompt(
                                                  GEMINI_API_KEY, call.script),
                                     requests |-> Traffic(GEMINI_API_KEY, call.script).requests,
                                     sleeps |-> Traffic(GEMINI_API_KEY, call.script).sleeps]]
    /\ GatewayFrame

---------------------------------------------------------------------------
\* Registry access

\* CHANNEL_STATES.get(channel_id, BotState(channel_id))
GetOrNew(c) == IF Registered(c) THEN CHANNEL_STATES[c] ELSE BotState(c, now)

\* the tick's loop variable `state` for channel c: the object its snapshot holds
TickObj(c) == IF orphan[c] # NoObj THEN orphan[c] ELSE CHANNEL_STATES[c]

\* channels of the snapshot the tick has not finished
Pending(c) == pc \in {"loop", "gen", "send"} /\ InSeq(queue, c)

\* the registry object of c leaves the registry: a tick that still holds it
\* keeps the object itself
Detached(cs) ==
    [c \in Channels |->
        IF c \in cs /\ Pending(c) /\ orphan[c] = NoObj /\ Registered(c)
        THEN CHANNEL_STATES[c] ELSE orphan[c]]

\* interval_hours values a user passes to /manual, as a fraction <<n, d>>
HourInputs == {<<0, 1>>, <<0 - 1, 1>>, <<1, 720>>, <<1, 361>>, <<1, 360>>}

\* int(interval_hours * 3600) for interval_hours = h[1] / h[2] > 0
SecondsOf(h) == (h[1] * 3600) \div h[2]

\* the two early returns of manual_schedule
ManualRefuses(interval_hours) ==
    interval_hours[1] <= 0 \/ SecondsOf(interval_hours) < 10

\* the two early returns of automatic_schedule after the parse (a parse that
\* raised does not come back to the handler at all)
AutomaticRefuses(parsed) ==
    \/ Truthy(parsed.error)
    \/ IsExc(parsed.data)
    \/ ~Truthy(PyGet(parsed.data, "announcement_prompt", None))
    \/ PyGet(parsed.data, "interval_seconds", None).v < 10

\* the inputs the handlers go through with
AcceptedHours == {h \in HourInputs : ~ManualRefuses(h)}

AcceptedParses == {r \in ParseWithKey : ~AutomaticRefuses(r)}

---------------------------------------------------------------------------
\* Commands

\* /manual without the minimum of 10 seconds
ManualWithoutMinimum(c, message, interval_hours) ==
    /\ Interleavable
    /\ exists[c]
    /\ IF interval_hours[1] <= 0
       THEN /\ event' = Event("manual_rejected", c)
            /\ UNCHANGED <<now, CHANNEL_STATES, keyOrder, commands>>
       ELSE \E t2 \in LaterReads(now) :
              /\ commands < MaxCommands
              /\ commands' = commands + 1
              /\ CHANNEL_STATES' = [CHANNEL_STATES EXCEPT ![c] =
                    [GetOrNew(c) EXCEPT
                        !.interval_seconds = SecondsOf(interval_hours),
                        !.scheduled_message_content = message,
                        !.is_automatic = FALSE,
                        !.ignore_stack_logic = FALSE,
                        !.last_bot_send_time = now,
                        !.last_channel_activity_time = t2]]
              /\ keyOrder' = WithKey(keyOrder, c)
              /\ now' = t2
              /\ event' = NoEvent
    /\ UNCHANGED <<GEMINI_API_KEY, exists, pc, queue, orphan, msg>>
    /\ UNCHANGED <<call, test>>

\* /manual setting the send time 15 seconds back, as the override does
ManualWithRewind(c, message, interval_hours) ==
    /\ Interleavable
    /\ exists[c]
    /\ IF ManualRefuses(interval_hours)
       THEN /\ event' = Event("manual_rejected", c)
            /\ UNCHANGED <<now, CHANNEL_STATES, keyOrder, commands>>
       ELSE \E t2 \in LaterReads(now) :
              /\ event' = NoEvent
              /\ commands < MaxCommands
              /\ commands' = commands + 1
              /\ CHANNEL_STATES' = [CHANNEL_STATES EXCEPT ![c] =
                    [GetOrNew(c) EXCEPT
                        !.interval_seconds = SecondsOf(interval_hours),
                        !.scheduled_message_content = message,
                        !.is_automatic = FALSE,
                        !.ignore_stack_logic = FALSE,
                        !.last_bot_send_time = now - 15,
                        !.last_channel_activity_time = t2]]
              /\ keyOrder' = WithKey(keyOrder, c)
              /\ now' = t2
    /\ UNCHANGED <<GEMINI_API_KEY, exists, pc, queue, orphan, msg>>
    /\ UNCHANGED <<call, test>>

manual_schedule(c, message, interval_hours) ==
    /\ Interleavable
    /\ exists[c]
    /\ IF ManualRefuses(interval_hours)
       THEN /\ event' = Event("manual_rejected", c)
            /\ UNCHANGED <<now, CHANNEL_STATES, keyOrder, commands>>
       ELSE \E t2 \in LaterReads(now) :
              /\ event' = NoEvent
              /\ commands < MaxCommands
              /\ commands' = commands + 1
              /\ CHANNEL_STATES' = [CHANNEL_STATES EXCEPT ![c] =
                    [GetOrNew(c) EXCEPT
                        !.interval_seconds = SecondsOf(interval_hours),
                        !.scheduled_message_content = message,
                        !.is_automatic = FALSE,
                        !.ignore_stack_logic = FALSE,
                        !.last_bot_send_time = now,
                        !.last_channel_activity_time = t2]]
              /\ keyOrder' = WithKey(keyOrder, c)
              /\ now' = t2
    /\ UNCHANGED <<GEMINI_API_KEY, exists, pc, queue, orphan, msg>>
    /\ UNCHANGED <<call, test>>

\* /automatic without the reset of the override
AutomaticKeepsOverride(c, parsed) ==
    /\ Interleavable
    /\ GEMINI_API_KEY
    /\ LET interval_seconds == PyGet(parsed.data, "interval_seconds", None)
           ai_prompt == PyGet(parsed.data, "announcement_prompt", None)
       IN  IF AutomaticRefuses(parsed)
           THEN /\ event' = Event("automatic_rejected", c)
                /\ UNCHANGED <<now, CHANNEL_STATES, keyOrder, commands>>
           ELSE \E t2 \in LaterReads(now) :
                  /\ event' = NoEvent
                  /\ commands < MaxCommands
                  /\ commands' = commands + 1
                  /\ CHANNEL_STATES' = [CHANNEL_STATES EXCEPT ![c] =
                        [GetOrNew(c) EXCEPT
                            !.interval_seconds = interval_seconds.v,
                            !.ai_prompt = ai_prompt.v,
                            !.is_automatic = TRUE,
                            !.last_bot_send_time = now,
                            !.last_channel_activity_time = t2]]
                  /\ keyOrder' = WithKey(keyOrder, c)
                  /\ now' = t2
    /\ UNCHANGED <<GEMINI_API_KEY, exists, pc, queue, orphan, msg>>
    /\ UNCHANGED <<call, test>>

\* The handler awaits parse_automatic_prompt before it touches the registry;
\* this is the stretch after that await, so the channel may be gone by then.
automatic_schedule(c, parsed) ==
    /\ Interleavable
    /\ GEMINI_API_KEY
    /\ LET interval_seconds == PyGet(parsed.data, "interval_seconds", None)
           ai_prompt == PyGet(parsed.data, "announcement_prompt", None)
       IN  IF AutomaticRefuses(parsed)
           THEN /\ event' = Event("automatic_rejected", c)
                /\ UNCHANGED <<now, CHANNEL_STATES, keyOrder, commands>>
           ELSE \E t2 \in LaterReads(now) :
                  /\ event' = NoEvent
                  /\ commands < MaxCommands
                  /\ commands' = commands + 1
                  /\ CHANNEL_STATES' = [CHANNEL_STATES EXCEPT ![c] =
                        [GetOrNew(c) EXCEPT
                            !.interval_seconds = interval_seconds.v,
                            !.ai_prompt = ai_prompt.v,
                            !.is_automatic = TRUE,
                            !.ignore_stack_logic = FALSE,
                            !.last_bot_send_time = now,
                            !.last_channel_activity_time = t2]]
                  /\ keyOrder' = WithKey(keyOrder, c)
                  /\ now' = t2
    /\ UNCHANGED <<GEMINI_API_KEY, exists, pc, queue, orphan, msg>>
    /\ UNCHANGED <<call, test>>

\* passwords a user may type
Passwords == {"12344321", "wrong"}

\* the override without the rewind of the send time
OverrideWithoutRewind(c, password) ==
    /\ Interleavable
    /\ exists[c]
    /\ IF password # "12344321"
       THEN UNCHANGED <<now, CHANNEL_STATES, keyOrder, commands>>
       ELSE \E t2 \in LaterReads(now) :
              /\ commands < MaxCommands
              /\ commands' = commands + 1
              /\ CHANNEL_STATES' = [CHANNEL_STATES EXCEPT ![c] =
                    [GetOrNew(c) EXCEPT
                        !.interval_seconds = 10,
                        !.scheduled_message_content = "Hi",
                        !.is_automatic = FALSE,
                        !.ignore_stack_logic = TRUE,
                        !.last_bot_send_time = now,
                        !.last_channel_activity_time = t2]]
              /\ keyOrder' = WithKey(keyOrder, c)
              /\ now' = t2
    /\ event' = NoEvent
    /\ UNCHANGED <<GEMINI_API_KEY, exists, pc, queue, orphan, msg>>
    /\ UNCHANGED <<call, test>>

\* the override with an interval of 5 seconds
OverrideEveryFive(c, password) ==
    /\ Interleavable
    /\ exists[c]
    /\ IF password # "12344321"
       THEN UNCHANGED <<now, CHANNEL_STATES, keyOrder, commands>>
       ELSE \E t2 \in LaterReads(now) :
              /\ commands < MaxCommands
              /\ commands' = commands + 1
              /\ CHANNEL_STATES' = [CHANNEL_STATES EXCEPT ![c] =
                    [GetOrNew(c) EXCEPT
                        !.interval_seconds = 5,
                        !.scheduled_message_content = "Hi",
                        !.is_automatic = FALSE,
                        !.ignore_stack_logic = TRUE,
                        !.last_bot_send_time = now - 15,
                        !.last_channel_activity_time = t2]]
              /\ keyOrder' = WithKey(keyOrder, c)
              /\ now' = t2
    /\ event' = NoEvent
    /\ UNCHANGED <<GEMINI_API_KEY, exists, pc, queue, orphan, msg>>
    /\ UNCHANGED <<call, test>>

ignore_stack_logic(c, password) ==
    /\ Interleavable
    /\ exists[c]
    /\ IF password # "12344321"
       THEN UNCHANGED <<now, CHANNEL_STATES, keyOrder, commands>>
       ELSE \E t2 \in LaterReads(now) :
              /\ commands < MaxCommands
              /\ commands' = commands + 1
              /\ CHANNEL_STATES' = [CHANNEL_STATES EXCEPT ![c] =
                    [GetOrNew(c) EXCEPT
                        !.interval_seconds = 10,
                        !.scheduled_message_content = "Hi",
                        !.is_automatic = FALSE,
                        !.ignore_stack_logic = TRUE,
                        !.last_bot_send_time = now - 15,
                        !.last_channel_activity_time = t2]]
              /\ keyOrder' = WithKey(keyOrder, c)
              /\ now' = t2
    /\ event' = NoEvent
    /\ UNCHANGED <<GEMINI_API_KEY, exists, pc, queue, orphan, msg>>
    /\ UNCHANGED <<call, test>>

\* /stop channel clearing the whole registry, as /stop all does
StopChannelClearsAll(c) ==
    /\ Interleavable
    /\ exists[c]
    /\ IF Registered(c)
       THEN /\ commands < MaxCommands
            /\ commands' = commands + 1
            /\ CHANNEL_STATES' = [d \in Channels |-> Absent]
            /\ keyOrder' = <<>>
            /\ orphan' = Detached(Channels)
       ELSE UNCHANGED <<CHANNEL_STATES, keyOrder, orphan, commands>>
    /\ event' = NoEvent
    /\ UNCHANGED <<now, GEMINI_API_KEY, exists, pc, queue, msg>>
    /\ UNCHANGED <<call, test>>

stop_channel(c) ==
    /\ Interleavable
    /\ exists[c]
    /\ IF Registered(c)
       THEN /\ commands < MaxCommands
            /\ commands' = commands + 1
            /\ CHANNEL_STATES' = [CHANNEL_STATES EXCEPT ![c] = Absent]
            /\ keyOrder' = Without(keyOrder, c)
            /\ orphan' = Detached({c})
       ELSE UNCHANGED <<CHANNEL_STATES, keyOrder, orphan, commands>>
    /\ event' = NoEvent
    /\ UNCHANGED <<now, GEMINI_API_KEY, exists, pc, queue, msg>>
    /\ UNCHANGED <<call, test>>

stop_all ==
    /\ Interleavable
    /\ IF keyOrder # <<>>
       THEN /\ commands < MaxCommands
            /\ commands' = commands + 1
       ELSE UNCHANGED commands
    /\ CHANNEL_STATES' = [c \in Channels |-> Absent]
    /\ keyOrder' = <<>>
    /\ orphan' = Detached(Channels)
    /\ event' = NoEvent
    /\ UNCHANGED <<now, GEMINI_API_KEY, exists, pc, queue, msg>>
    /\ UNCHANGED <<call, test>>

\* the activity update done as an assignment to the registry key, which
\* makes an entry for a channel that has none
OnMessageCreatesEntry(c, fromSelf, filtered) ==
    /\ Interleavable
    /\ exists[c]
    /\ IF ~fromSelf /\ ~filtered
       THEN /\ CHANNEL_STATES' = [CHANNEL_STATES EXCEPT
                ![c] = [GetOrNew(c) EXCEPT !.last_channel_activity_time = now]]
            /\ keyOrder' = WithKey(keyOrder, c)
       ELSE UNCHANGED <<CHANNEL_STATES, keyOrder>>
    /\ event' = NoEvent
    /\ UNCHANGED <<now, GEMINI_API_KEY, exists, pc, queue, orphan, msg, commands>>
    /\ UNCHANGED <<call, test>>

\* on_message without its first test: the bot's own messages count
OnMessageCountsSelf(c, fromSelf, filtered) ==
    /\ Interleavable
    /\ exists[c]
    /\ IF ~filtered /\ Registered(c)
       THEN CHANNEL_STATES' = [CHANNEL_STATES EXCEPT
                ![c].last_channel_activity_time = now]
       ELSE UNCHANGED CHANNEL_STATES
    /\ event' = NoEvent
    /\ UNCHANGED <<now, GEMINI_API_KEY, keyOrder, exists, pc, queue, orphan, msg,
                   commands>>
    /\ UNCHANGED <<call, test>>

\* the tick is suspended in channel.send for channel c, with the entry the
\* registry holds
SendInFlight(c) == pc = "send" /\ Head(queue) = c /\ orphan[c] = NoObj

\* on_message: fromSelf is message.author == client.user, filtered is whether
\* an anti-raid filter or the GIF filter returned before the activity update;
\* event tells an activity update made while the tick's send to the same
\* channel is in flight
on_message(c, fromSelf, filtered) ==
    /\ Interleavable
    /\ exists[c]
    /\ IF ~fromSelf /\ ~filtered /\ Registered(c)
       THEN /\ CHANNEL_STATES' = [CHANNEL_STATES EXCEPT
                ![c].last_channel_activity_time = now]
            /\ event' = IF SendInFlight(c) THEN Event("heard", c) ELSE NoEvent
       ELSE /\ UNCHANGED CHANNEL_STATES
            /\ event' = NoEvent
    /\ UNCHANGED <<now, GEMINI_API_KEY, keyOrder, exists, pc, queue, orphan, msg,
                   commands>>
    /\ UNCHANGED <<call, test>>

---------------------------------------------------------------------------
\* /status

\* the interval always given in seconds
DisplayInSeconds(interval_seconds) == ToString(interval_seconds) \o " seconds"

\* get_display_interval
get_display_interval(interval_seconds) ==
    IF interval_seconds >= 3600 /\ interval_seconds % 3600 = 0
    THEN ToString(interval_seconds \div 3600) \o " hours"
    ELSE IF interval_seconds >= 60 /\ interval_seconds % 60 = 0
         THEN ToString(interval_seconds \div 60) \o " minutes"
         ELSE ToString(interval_seconds) \o " seconds"

Max(a, b) == IF a >= b THEN a ELSE b

\* get_status without the max(0, ...)
StatusWithoutMax(c) ==
    IF ~Registered(c)
    THEN [status |-> "Idle", mode |-> "", interval |-> "", time_until_next |-> 0,
          paused |-> "", ignore_stack_logic |-> FALSE]
    ELSE LET state == CHANNEL_STATES[c] IN
         [status |-> "Running",
          mode |-> IF state.is_automatic THEN "Automatic (AI)" ELSE "Manual (Fixed)",
          interval |-> get_display_interval(state.interval_seconds),
          time_until_next |-> state.interval_seconds - (now - state.last_bot_send_time),
          paused |-> IF state.ignore_stack_logic THEN "No (Ignored)"
                     ELSE IF state.last_channel_activity_time
                                <= state.last_bot_send_time
                          THEN "Yes (Awaiting chat activity)" ELSE "No",
          ignore_stack_logic |-> state.ignore_stack_logic]

\* the message get_status sends for channel c
get_status(c) ==
    IF ~Registered(c)
    THEN [status |-> "Idle", mode |-> "", interval |-> "", time_until_next |-> 0,
          paused |-> "", ignore_stack_logic |-> FALSE]
    ELSE LET state == CHANNEL_STATES[c]
             time_since_send == now - state.last_bot_send_time
         IN  [status |-> "Running",
              mode |-> IF state.is_automatic THEN "Automatic (AI)" ELSE "Manual (Fixed)",
              interval |-> get_display_interval(state.interval_seconds),
              time_until_next |-> Max(0, state.interval_seconds - time_since_send),
              paused |-> IF state.ignore_stack_logic THEN "No (Ignored)"
                         ELSE IF state.last_channel_activity_time
                                    <= state.last_bot_send_time
                              THEN "Yes (Awaiting chat activity)" ELSE "No",
              ignore_stack_logic |-> state.ignore_stack_logic]

\* the /status handler runs for channel c: it reads the registry and the
\* clock and answers with get_status(c)
StatusCommand(c) ==
    /\ Interleavable
    /\ exists[c]
    /\ event' = Event("status", c)
    /\ UNCHANGED <<now, GEMINI_API_KEY, CHANNEL_STATES, keyOrder, exists, pc, queue,
                   orphan, msg, commands, call, test>>

---------------------------------------------------------------------------
\* /test.  The handler reads the entry, then awaits the generation (automatic
\* entries) and the send; ch and msg of a finished run stay in `test`.

\* test_schedule up to its first await after the entry is read
test_schedule(c) ==
    /\ Interleavable
    /\ exists[c]
    /\ test.pc = "idle"
    /\ IF ~Registered(c)
       THEN /\ event' = Event("test_no_schedule", c)
            /\ UNCHANGED <<test, commands>>
       ELSE /\ commands < MaxCommands
            /\ commands' = commands + 1
            /\ event' = Event("test_started", c)
            /\ test' = IF CHANNEL_STATES[c].is_automatic
                       THEN [pc |-> "gen", ch |-> c, msg |-> NoMsg]
                       ELSE [pc |-> "send", ch |-> c,
                             msg |-> CHANNEL_STATES[c].scheduled_message_content]
    /\ UNCHANGED <<now, GEMINI_API_KEY, CHANNEL_STATES, keyOrder, exists, pc, queue,
                   orphan, msg, call>>

\* generate_announcement_content comes back to the handler, or raises
TestGenReturn(r) ==
    /\ test.pc = "gen"
    /\ r \in (IF GEMINI_API_KEY THEN GenerationWithKey ELSE GenerationWithoutKey)
    /\ IF IsExc(r)
       THEN /\ test' = [test EXCEPT !.pc = "idle"]
            /\ event' = Event("test_raised", test.ch)
       ELSE /\ test' = [test EXCEPT !.pc = "send", !.msg = r.v]
            /\ event' = Event("test_generated", test.ch)
    /\ UNCHANGED <<now, GEMINI_API_KEY, CHANNEL_STATES, keyOrder, exists, pc, queue,
                   orphan, msg, commands, call>>

\* the send of /test ending like the tick's: the send time is written
TestSendOkWritesTime ==
    /\ test.pc = "send"
    /\ exists[test.ch]
    /\ test' = [test EXCEPT !.pc = "idle"]
    /\ event' = Event("test_sent", test.ch)
    /\ CHANNEL_STATES' =
         IF Registered(test.ch)
         THEN [CHANNEL_STATES EXCEPT ![test.ch].last_bot_send_time = now]
         ELSE CHANNEL_STATES
    /\ UNCHANGED <<now, GEMINI_API_KEY, keyOrder, exists, pc, queue,
                   orphan, msg, commands, call>>

\* interaction.channel.send returned; the confirmation follows
TestSendOk ==
    /\ test.pc = "send"
    /\ exists[test.ch]
    /\ test' = [test EXCEPT !.pc = "idle"]
    /\ event' = Event("test_sent", test.ch)
    /\ UNCHANGED <<now, GEMINI_API_KEY, CHANNEL_STATES, keyOrder, exists, pc, queue,
                   orphan, msg, commands, call>>

\* interaction.channel.send raised discord.Forbidden
TestSendForbidden ==
    /\ test.pc = "send"
    /\ exists[test.ch]
    /\ test' = [test EXCEPT !.pc = "idle"]
    /\ event' = Event("test_forbidden", test.ch)
    /\ UNCHANGED <<now, GEMINI_API_KEY, CHANNEL_STATES, keyOrder, exists, pc, queue,
                   orphan, msg, commands, call>>

\* interaction.channel.send raised another exception
TestSendOther ==
    /\ test.pc = "send"
    /\ test' = [test EXCEPT !.pc = "idle"]
    /\ event' = Event("test_failed", test.ch)
    /\ UNCHANGED <<now, GEMINI_API_KEY, CHANNEL_STATES, keyOrder, exists, pc, queue,
                   orphan, msg, commands, call>>

---------------------------------------------------------------------------
\* Environment

\* time passes
Advance(d) ==
    /\ Interleavable
    /\ now + d <= MaxTime
    /\ now' = now + d
    /\ event' = NoEvent
    /\ UNCHANGED <<GEMINI_API_KEY, CHANNEL_STATES, keyOrder, exists, pc, queue,
                   orphan, msg, commands>>
    /\ UNCHANGED <<call, test>>

\* the channel is deleted on the platform: get_channel no longer resolves it
DeleteChannel(c) ==
    /\ Interleavable
    /\ exists[c]
    /\ exists' = [exists EXCEPT ![c] = FALSE]
    /\ event' = NoEvent
    /\ UNCHANGED <<now, GEMINI_API_KEY, CHANNEL_STATES, keyOrder, pc, queue,
                   orphan, msg, commands>>
    /\ UNCHANGED <<call, test>>

---------------------------------------------------------------------------
\* The scheduler tick, send_scheduled_message

\* the due test with the comparison dropped
DueAlways(state) == now - state.last_bot_send_time >= 0

\* the due test passing after half the interval
DueAfterHalf(state) == 2 * (now - state.last_bot_send_time) >= state.interval_seconds

\* time.time() - state.last_bot_send_time >= state.interval_seconds
Due(state) == now - state.last_bot_send_time >= state.interval_seconds

\* the idle test without the override
IdleIgnoringOverride(state) ==
    state.last_channel_activity_time <= state.last_bot_send_time

\* not state.ignore_stack_logic and
\* state.last_channel_activity_time <= state.last_bot_send_time
Idle(state) ==
    /\ ~state.ignore_stack_logic
    /\ state.last_channel_activity_time <= state.last_bot_send_time

\* client.get_channel(state.scheduled_channel_id)
get_channel(channel_id) == exists[channel_id]

\* the entry the loop is at
Current == Head(queue)

\* `continue`, or the end of the loop body: on to the next pair of the snapshot
NextEntry ==
    /\ queue' = Tail(queue)
    /\ pc' = IF Tail(queue) = <<>> THEN "idle" ELSE "loop"
    /\ orphan' = [orphan EXCEPT ![Current] = NoObj]
    /\ msg' = NoMsg

\* an exception leaves send_scheduled_message: the rest of the snapshot is
\* not processed and tasks.loop does not run the function again
Raise(name) ==
    /\ queue' = <<>>
    /\ pc' = "stopped"
    /\ orphan' = [c \in Channels |-> NoObj]
    /\ msg' = NoMsg

\* the write done as an assignment to the registry key, which would put a
\* removed object back
WriteSendTimeUpsert(c) ==
    CHANNEL_STATES' = [CHANNEL_STATES EXCEPT
        ![c] = [TickObj(c) EXCEPT !.last_bot_send_time = now]]

\* state.last_bot_send_time = time.time(): a write to the snapshot's object,
\* which reaches the registry only if the registry still holds that object
WriteSendTime(c) ==
    IF orphan[c] = NoObj
    THEN CHANNEL_STATES' = [CHANNEL_STATES EXCEPT ![c].last_bot_send_time = now]
    ELSE UNCHANGED CHANNEL_STATES

\* the removal left out: the entry stays in the registry
DelEntryKeepsKey(c) ==
    /\ UNCHANGED <<CHANNEL_STATES, keyOrder>>
    /\ NextEntry

\* del CHANNEL_STATES[channel_id], then the rest of the loop body;
\* KeyError if the key is not there
DelEntry(c) ==
    IF Registered(c)
    THEN /\ CHANNEL_STATES' = [CHANNEL_STATES EXCEPT ![c] = Absent]
         /\ keyOrder' = Without(keyOrder, c)
         /\ NextEntry
    ELSE /\ UNCHANGED <<CHANNEL_STATES, keyOrder>>
         /\ Raise("KeyError")

\* for channel_id, state in list(CHANNEL_STATES.items())
TickBegin ==
    /\ pc = "idle"
    /\ queue' = keyOrder
    /\ pc' = IF keyOrder = <<>> THEN "idle" ELSE "loop"
    /\ event' = NoEvent
    /\ UNCHANGED <<now, GEMINI_API_KEY, CHANNEL_STATES, keyOrder, exists, orphan,
                   msg, commands>>
    /\ UNCHANGED <<call, test>>

\* the first guard without its `continue`: the entry falls through to the
\* due test and the idle test, which reset its timer
TickInertFallsThrough ==
    /\ pc = "loop"
    /\ TickObj(Current).interval_seconds = 0
    /\ WriteSendTime(Current)
    /\ NextEntry
    /\ event' = Event("inert", Current)
    /\ UNCHANGED <<now, GEMINI_API_KEY, keyOrder, exists, commands>>
    /\ UNCHANGED <<call, test>>

\* if state.interval_seconds == 0: continue
TickInert ==
    /\ pc = "loop"
    /\ TickObj(Current).interval_seconds = 0
    /\ NextEntry
    /\ event' = Event("inert", Current)
    /\ UNCHANGED <<now, GEMINI_API_KEY, CHANNEL_STATES, keyOrder, exists, commands>>
    /\ UNCHANGED <<call, test>>

\* the entry is not due: the body of the `if` is skipped
TickNotDue ==
    /\ pc = "loop"
    /\ TickObj(Current).interval_seconds # 0
    /\ ~Due(TickObj(Current))
    /\ NextEntry
    /\ event' = Event("not_due", Current)
    /\ UNCHANGED <<now, GEMINI_API_KEY, CHANNEL_STATES, keyOrder, exists, commands>>
    /\ UNCHANGED <<call, test>>

\* the suppression without the timer reset
TickSuppressNoReset ==
    /\ pc = "loop"
    /\ TickObj(Current).interval_seconds # 0
    /\ Due(TickObj(Current))
    /\ Idle(TickObj(Current))
    /\ NextEntry
    /\ event' = Event("suppressed", Current)
    /\ UNCHANGED <<now, GEMINI_API_KEY, CHANNEL_STATES, keyOrder, exists, commands>>
    /\ UNCHANGED <<call, test>>

\* anti-stacking: the channel is idle, reset the timer and continue
TickSuppress ==
    /\ pc = "loop"
    /\ TickObj(Current).interval_seconds # 0
    /\ Due(TickObj(Current))
    /\ Idle(TickObj(Current))
    /\ WriteSendTime(Current)
    /\ NextEntry
    /\ event' = Event("suppressed", Current)
    /\ UNCHANGED <<now, GEMINI_API_KEY, keyOrder, exists, commands>>
    /\ UNCHANGED <<call, test>>

\* the channel is not found: the entry is removed from the schedule
TickUnresolved ==
    /\ pc = "loop"
    /\ TickObj(Current).interval_seconds # 0
    /\ Due(TickObj(Current))
    /\ ~Idle(TickObj(Current))
    /\ ~get_channel(TickObj(Current).scheduled_channel_id)
    /\ DelEntry(Current)
    /\ event' = Event("unresolved", Current)
    /\ UNCHANGED <<now, GEMINI_API_KEY, exists, commands>>
    /\ UNCHANGED <<call, test>>

\* is_automatic: await generate_announcement_content(state.ai_prompt)
TickGenerate ==
    /\ pc = "loop"
    /\ TickObj(Current).interval_seconds # 0
    /\ Due(TickObj(Current))
    /\ ~Idle(TickObj(Current))
    /\ get_channel(TickObj(Current).scheduled_channel_id)
    /\ TickObj(Current).is_automatic
    /\ pc' = "gen"
    /\ event' = Event("generate", Current)
    /\ UNCHANGED <<now, GEMINI_API_KEY, CHANNEL_STATES, keyOrder, exists, queue,
                   orphan, msg, commands>>
    /\ UNCHANGED <<call, test>>

\* not is_automatic: await channel.send(scheduled_message_content)
TickSend ==
    /\ pc = "loop"
    /\ TickObj(Current).interval_seconds # 0
    /\ Due(TickObj(Current))
    /\ ~Idle(TickObj(Current))
    /\ get_channel(TickObj(Current).scheduled_channel_id)
    /\ ~TickObj(Current).is_automatic
    /\ msg' = TickObj(Current).scheduled_message_content
    /\ pc' = "send"
    /\ event' = Event("dispatch", Current)
    /\ UNCHANGED <<now, GEMINI_API_KEY, CHANNEL_STATES, keyOrder, exists, queue,
                   orphan, commands>>
    /\ UNCHANGED <<call, test>>

\* a generation that came back with an error text skips the cycle
GenReturnSkipsErrors(r) ==
    /\ pc = "gen"
    /\ r \in (IF GEMINI_API_KEY THEN GenerationWithKey ELSE GenerationWithoutKey)
    /\ IF IsExc(r)
       THEN /\ Raise(r.v)
            /\ event' = Event("generation_raised", Current)
       ELSE IF r.v # "generated"
            THEN /\ NextEntry
                 /\ event' = Event("skipped", Current)
            ELSE /\ msg' = r.v
                 /\ pc' = "send"
                 /\ event' = Event("dispatch", Current)
                 /\ UNCHANGED <<queue, orphan>>
    /\ UNCHANGED <<now, GEMINI_API_KEY, CHANNEL_STATES, keyOrder, exists, commands>>
    /\ UNCHANGED <<call, test>>

\* generate_announcement_content comes back: with a text, which is sent, or
\* with an exception, which nothing in the tick catches
GenReturn(r) ==
    /\ pc = "gen"
    /\ r \in (IF GEMINI_API_KEY THEN GenerationWithKey ELSE GenerationWithoutKey)
    /\ IF IsExc(r)
       THEN /\ Raise(r.v)
            /\ event' = Event("generation_raised", Current)
       ELSE /\ msg' = r.v
            /\ pc' = "send"
            /\ event' = Event("dispatch", Current)
            /\ UNCHANGED <<queue, orphan>>
    /\ UNCHANGED <<now, GEMINI_API_KEY, CHANNEL_STATES, keyOrder, exists, commands>>
    /\ UNCHANGED <<call, test>>

\* channel.send returned
SendOk ==
    /\ pc = "send"
    /\ exists[Current]
    /\ WriteSendTime(Current)
    /\ NextEntry
    /\ event' = Event("sent", Current)
    /\ UNCHANGED <<now, GEMINI_API_KEY, keyOrder, exists, commands>>
    /\ UNCHANGED <<call, test>>

\* Forbidden handled like any other exception: the entry is kept
SendForbiddenKeepsEntry ==
    /\ pc = "send"
    /\ exists[Current]
    /\ NextEntry
    /\ event' = Event("forbidden", Current)
    /\ UNCHANGED <<now, GEMINI_API_KEY, CHANNEL_STATES, keyOrder, exists, commands>>
    /\ UNCHANGED <<call, test>>

\* channel.send raised discord.Forbidden
SendForbidden ==
    /\ pc = "send"
    /\ exists[Current]
    /\ DelEntry(Current)
    /\ event' = Event("forbidden", Current)
    /\ UNCHANGED <<now, GEMINI_API_KEY, exists, commands>>
    /\ UNCHANGED <<call, test>>

\* the timer advanced on a failed send as on a successful one
SendOtherResetsTimer ==
    /\ pc = "send"
    /\ WriteSendTime(Current)
    /\ NextEntry
    /\ event' = Event("failed", Current)
    /\ UNCHANGED <<now, GEMINI_API_KEY, keyOrder, exists, commands>>
    /\ UNCHANGED <<call, test>>

\* channel.send raised another exception
SendOther ==
    /\ pc = "send"
    /\ NextEntry
    /\ event' = Event("failed", Current)
    /\ UNCHANGED <<now, GEMINI_API_KEY, CHANNEL_STATES, keyOrder, exists, commands>>
    /\ UNCHANGED <<call, test>>

Init ==
    /\ now = 0
    /\ GEMINI_API_KEY \in BOOLEAN
    /\ CHANNEL_STATES = [c \in Channels |-> Absent]
    /\ keyOrder = <<>>
    /\ exists = [c \in Channels |-> TRUE]
    /\ pc = "idle"
    /\ queue = <<>>
    /\ orphan = [c \in Channels |-> NoObj]
    /\ msg = NoMsg
    /\ event = NoEvent
    /\ commands = 0
    /\ call = NoGatewayCall
    /\ test = NoTest

Next ==
    \/ \E c \in Channels, m \in Messages, h \in AcceptedHours : manual_schedule(c, m, h)
    \/ \E c \in Channels, r \in AcceptedParses : automatic_schedule(c, r)
    \/ \E c \in Channels, p \in Passwords : ignore_stack_logic(c, p)
    \/ \E c \in Channels : stop_channel(c)
    \/ stop_all
    \/ \E c \in Channels, s \in BOOLEAN, f \in BOOLEAN : on_message(c, s, f)
    \/ \E d \in ClockSteps : Advance(d)
    \/ \E c \in Channels : DeleteChannel(c)
    \/ TickBegin
    \/ TickNotDue
    \/ TickSuppress
    \/ TickUnresolved
    \/ TickGenerate
    \/ TickSend
    \/ \E r \in GenerationWithKey \cup GenerationWithoutKey : GenReturn(r)
    \/ SendOk
    \/ SendForbidden
    \/ SendOther

Spec == Init /\ [][Next]_vars

\* the registry holds freshly constructed BotState objects (interval 0): the
\* states in which the first guard of the tick's loop body decides
KeyOrders ==
    {s \in UNION {[1..n -> Channels] : n \in 0..Cardinality(Channels)} :
        \A i, j \in 1..Len(s) : i # j => s[i] # s[j]}

InitInert ==
    /\ now = 0
    /\ GEMINI_API_KEY \in BOOLEAN
    /\ keyOrder \in KeyOrders
    /\ CHANNEL_STATES = [c \in Channels |->
            IF InSeq(keyOrder, c) THEN BotState(c, 0) ELSE Absent]
    /\ exists = [c \in Channels |-> TRUE]
    /\ pc = "idle"
    /\ queue = <<>>
    /\ orphan = [c \in Channels |-> NoObj]
    /\ msg = NoMsg
    /\ event = NoEvent
    /\ commands = 0
    /\ call = NoGatewayCall
    /\ test = NoTest

NextInert == Next \/ TickInert

SpecInert == InitInert /\ [][NextInert]_vars

\* one call of a gateway function, for every key setting and every script
InitGateway ==
    /\ now = 0
    /\ GEMINI_API_KEY \in BOOLEAN
    /\ CHANNEL_STATES = [c \in Channels |-> Absent]
    /\ keyOrder = <<>>
    /\ exists = [c \in Channels |-> TRUE]
    /\ pc = "idle"
    /\ queue = <<>>
    /\ orphan = [c \in Channels |-> NoObj]
    /\ msg = NoMsg
    /\ event = NoEvent
    /\ commands = 0
    /\ call \in {GatewayCall("fetch", s) : s \in Scripts}
                \cup {GatewayCall("generate", s) : s \in Scripts}
                \cup {GatewayCall("parse", s) : s \in ParseScripts}
    /\ test = NoTest

NextGateway ==
    \/ FetchReturn
    \/ GenerateReturn
    \/ ParseReturn

SpecGateway == InitGateway /\ [][NextGateway]_vars

\* the command handlers with every input a user may give, the scheduler
\* not started and every channel in place
NextCommands ==
    \/ \E c \in Channels, m \in Messages, h \in HourInputs : manual_schedule(c, m, h)
    \/ \E c \in Channels, r \in ParseWithKey : automatic_schedule(c, r)
    \/ \E c \in Channels, p \in Passwords : ignore_stack_logic(c, p)
    \/ \E c \in Channels : stop_channel(c)
    \/ stop_all
    \/ \E c \in Channels, s \in BOOLEAN, f \in BOOLEAN : on_message(c, s, f)
    \/ \E c \in Channels : StatusCommand(c)
    \/ \E c \in Channels : test_schedule(c)
    \/ \E r \in GenerationWithKey \cup GenerationWithoutKey : TestGenReturn(r)
    \/ TestSendOk
    \/ TestSendForbidden
    \/ TestSendOther
    \/ \E d \in ClockSteps : Advance(d)

SpecCommands == Init /\ [][NextCommands]_vars

\* the entry /manual leaves when given at time 0 with 1/360 hours
ManualEntry(c) ==
    [BotState(c, 0) EXCEPT !.interval_seconds = 10,
                           !.scheduled_message_content = "hello"]

\* the entry /automatic leaves at time 0 for a request parsed to 20 seconds
AutomaticEntry(c) ==
    [BotState(c, 0) EXCEPT !.interval_seconds = 20,
                           !.ai_prompt = "fact",
                           !.is_automatic = TRUE]

\* the entry /ignore_stack_logic leaves at time 0
OverrideEntry(c) ==
    [BotState(c, 0) EXCEPT !.interval_seconds = 10,
                           !.scheduled_message_content = "Hi",
                           !.ignore_stack_logic = TRUE,
                           !.last_bot_send_time = 0 - 15]

\* the entries channel c can have right after scheduling commands at time 0
EntriesAtStart(c, key) ==
    {ManualEntry(c), OverrideEntry(c)} \cup (IF key THEN {AutomaticEntry(c)} ELSE {})

\* the registries the scheduling commands can have built at time 0
RegistriesAtStart(key, order) ==
    {r \in [Channels -> {Absent} \cup UNION {EntriesAtStart(c, key) : c \in Channels}] :
        \A c \in Channels :
            IF InSeq(order, c) THEN r[c] \in EntriesAtStart(c, key) ELSE r[c] = Absent}

\* schedules are in place, each channel's in any of its kinds; from there
\* messages arrive, /status is asked and schedules are stopped
InitScheduled ==
    /\ now = 0
    /\ GEMINI_API_KEY \in BOOLEAN
    /\ keyOrder \in KeyOrders
    /\ CHANNEL_STATES \in RegistriesAtStart(GEMINI_API_KEY, keyOrder)
    /\ exists = [c \in Channels |-> TRUE]
    /\ pc = "idle"
    /\ queue = <<>>
    /\ orphan = [c \in Channels |-> NoObj]
    /\ msg = NoMsg
    /\ event = NoEvent
    /\ commands = 0
    /\ call = NoGatewayCall
    /\ test = NoTest

NextScheduled ==
    \/ \E c \in Channels : stop_channel(c)
    \/ stop_all
    \/ \E c \in Channels, s \in BOOLEAN, f \in BOOLEAN : on_message(c, s, f)
    \/ \E c \in Channels : StatusCommand(c)
    \/ \E d \in ClockSteps : Advance(d)

SpecScheduled == InitScheduled /\ [][NextScheduled]_vars

\* interval_hours values of /manual that give whole hours, whole minutes and
\* neither: 1 h, 2 h, 30 min, 45 s and 10 s
DisplayHours == {<<1, 1>>, <<2, 1>>, <<1, 2>>, <<1, 80>>, <<1, 360>>}

\* the scheduling commands with intervals of every unit, and /status
NextStatus ==
    \/ \E c \in Channels, m \in Messages, h \in DisplayHours : manual_schedule(c, m, h)
    \/ \E c \in Channels, r \in AcceptedParses : automatic_schedule(c, r)
    \/ \E c \in Channels, p \in Passwords : ignore_stack_logic(c, p)
    \/ \E c \in Channels : StatusCommand(c)
    \/ \E d \in ClockSteps : Advance(d)

SpecStatus == Init /\ [][NextStatus]_vars

\* a synchronous stretch of the tick: its start, or the evaluation of the
\* next entry of the snapshot up to the next await or the end of the body
TickStep ==
    \/ TickBegin
    \/ TickNotDue
    \/ TickSuppress
    \/ TickUnresolved
    \/ TickGenerate
    \/ TickSend

\* the scheduler running over schedules that are in place, while messages
\* arrive, time passes, channels are deleted and schedules are stopped
NextLive ==
    \/ TickStep
    \/ \E r \in GenerationWithKey \cup GenerationWithoutKey : GenReturn(r)
    \/ SendOk
    \/ SendForbidden
    \/ SendOther
    \/ \E c \in Channels, s \in BOOLEAN, f \in BOOLEAN : on_message(c, s, f)
    \/ \E c \in Channels : stop_channel(c)
    \/ \E c \in Channels : DeleteChannel(c)
    \/ \E d \in ClockSteps : Advance(d)

\* tasks.loop starts the function again every second as long as the loop
\* runs, the event loop resumes a tick that can go on, and every call of the
\* gateway and every send comes to an end
Scheduling ==
    /\ WF_vars(TickStep)
    /\ WF_vars(\E r \in GenerationWithKey \cup GenerationWithoutKey : GenReturn(r))
    /\ WF_vars(SendOk \/ SendForbidden \/ SendOther)

SpecLive == InitScheduled /\ [][NextLive]_vars /\ Scheduling

---------------------------------------------------------------------------
\* Properties of the tick's evaluation of one entry

\* the tick is at the top of the loop body for channel c
Evaluating(c) == pc = "loop" /\ Current = c

\* the object the snapshot holds for c is the one the registry holds
StillRegistered(c) == orphan[c] = NoObj /\ Registered(c)

\* the step made a dispatch attempt to c: channel.send was called
DispatchTo(c) == pc' = "send" /\ Head(queue') = c

\* the step neither called the gateway nor channel.send
NoCall == pc' \notin {"gen", "send"}

\* C1: a due entry with ignore_idle_check = false and last_activity_time <=
\* last_send_time is not dispatched by the tick; its last_send_time becomes
\* now, and with that the entry is no longer due
C1_AntiStackingSuppresses ==
    [][\A c \in Channels :
         LET st == CHANNEL_STATES[c] IN
         (/\ Evaluating(c)
          /\ StillRegistered(c)
          /\ st.interval_seconds # 0
          /\ now - st.last_bot_send_time >= st.interval_seconds
          /\ ~st.ignore_stack_logic
          /\ st.last_channel_activity_time <= st.last_bot_send_time)
         => /\ NoCall
            /\ queue' = Tail(queue)
            /\ CHANNEL_STATES' =
                 [CHANNEL_STATES EXCEPT ![c].last_bot_send_time = now]
            /\ now' - CHANNEL_STATES'[c].last_bot_send_time
                 < CHANNEL_STATES'[c].interval_seconds]_vars

\* a tick has suppressed a due cycle of an entry and moved its timer
C1_Witness ==
    \E c \in Channels :
        /\ event = Event("suppressed", c)
        /\ Registered(c)
        /\ CHANNEL_STATES[c].last_bot_send_time = now
        /\ CHANNEL_STATES[c].last_channel_activity_time < now

\* C2: with ignore_idle_check = true a due entry whose channel resolves is
\* dispatched whatever its two timestamps are
C2_OverrideAlwaysDispatches ==
    [][\A c \in Channels :
         LET st == TickObj(c) IN
         (/\ Evaluating(c)
          /\ st.ignore_stack_logic
          /\ st.interval_seconds # 0
          /\ now - st.last_bot_send_time >= st.interval_seconds
          /\ exists[st.scheduled_channel_id])
         => /\ DispatchTo(c)
            /\ msg' = st.scheduled_message_content]_vars

\* a dispatch was started for an overriding entry that anti-stacking would
\* have suppressed (no activity since the last send)
C2_Witness ==
    \E c \in Channels :
        /\ event = Event("dispatch", c)
        /\ pc = "send"
        /\ TickObj(c).ignore_stack_logic
        /\ TickObj(c).last_channel_activity_time <= TickObj(c).last_bot_send_time

\* C3: an entry that is not due is not dispatched and the tick leaves it and
\* the registry as they are
C3_NotDueUntouched ==
    [][\A c \in Channels :
         LET st == TickObj(c) IN
         (/\ Evaluating(c)
          /\ now - st.last_bot_send_time < st.interval_seconds)
         => /\ NoCall
            /\ queue' = Tail(queue)
            /\ UNCHANGED <<CHANNEL_STATES, keyOrder>>]_vars

\* the tick has passed an entry that was not due
C3_Witness ==
    \E c \in Channels :
        /\ event = Event("not_due", c)
        /\ Registered(c)
        /\ now - CHANNEL_STATES[c].last_bot_send_time
             < CHANNEL_STATES[c].interval_seconds

\* C4: an entry with interval_seconds = 0 is never dispatched nor changed
C4_InertEntry ==
    [][\A c \in Channels :
         LET st == TickObj(c) IN
         (/\ Evaluating(c)
          /\ st.interval_seconds = 0)
         => /\ NoCall
            /\ queue' = Tail(queue)
            /\ UNCHANGED <<CHANNEL_STATES, keyOrder>>]_vars

\* the tick has passed an entry with interval 0 at a time when the due test
\* alone would have let it through
C4_Witness ==
    \E c \in Channels :
        /\ event = Event("inert", c)
        /\ Registered(c)
        /\ CHANNEL_STATES[c].interval_seconds = 0
        /\ now > CHANNEL_STATES[c].last_bot_send_time

\* the entry of c is due and anti-stacking does not hold it back
DueAndActive(st) ==
    /\ st.interval_seconds # 0
    /\ now - st.last_bot_send_time >= st.interval_seconds
    /\ ~(~st.ignore_stack_logic
         /\ st.last_channel_activity_time <= st.last_bot_send_time)

\* C5: when the channel of a due, non-suppressed entry does not resolve, the
\* tick makes no dispatch, the entry is out of the registry afterwards, and
\* /status for the channel answers Idle
C5_UnresolvedDeregisters ==
    [][\A c \in Channels :
         LET st == TickObj(c) IN
         (/\ Evaluating(c)
          /\ DueAndActive(st)
          /\ ~exists[st.scheduled_channel_id])
         => /\ NoCall
            /\ ~Registered(c)'
            /\ ~InSeq(keyOrder', c)
            /\ get_status(c)'.status = "Idle"]_vars

\* the tick has removed a registered entry whose channel did not resolve
C5_Witness ==
    \E c \in Channels :
        /\ event = Event("unresolved", c)
        /\ pc # "stopped"
        /\ ~exists[c]
        /\ ~Registered(c)
        /\ get_status(c).status = "Idle"

\* C6: a dispatch that fails with Forbidden takes the entry out of the
\* registry; a tick only ever works on channels registered when it began,
\* and only a command puts a channel (back) into the registry
C6_ForbiddenDeregisters ==
    [][/\ \A c \in Channels :
            event' = Event("forbidden", c) => ~Registered(c)' /\ ~InSeq(keyOrder', c)
       /\ (pc = "idle" /\ pc' # "idle")
            => \A c \in Channels : InSeq(queue', c) => Registered(c)
       /\ \A c \in Channels :
            (~Registered(c) /\ Registered(c)')
                => event' = NoEvent /\ commands' = commands + 1]_vars

\* the tick has removed a registered entry after a Forbidden
C6_Witness ==
    \E c \in Channels :
        /\ event = Event("forbidden", c)
        /\ pc # "stopped"
        /\ ~Registered(c)

\* C7: a dispatch that fails otherwise leaves the registry as it is, so an
\* entry that was due and not suppressed still is; and a tick that comes to
\* such an entry, with the channel resolving, calls the gateway or send again
C7_OtherFailureRetried ==
    [][\A c \in Channels :
         /\ event' = Event("failed", c)
              => /\ UNCHANGED <<CHANNEL_STATES, keyOrder>>
                 /\ (StillRegistered(c) /\ DueAndActive(CHANNEL_STATES[c]))
                      => (Registered(c) /\ DueAndActive(CHANNEL_STATES[c]))'
         /\ (/\ Evaluating(c)
             /\ DueAndActive(TickObj(c))
             /\ exists[TickObj(c).scheduled_channel_id])
              => pc' \in {"gen", "send"} /\ Head(queue') = c]_vars

\* a send has failed and the entry is in the registry, still due
C7_Witness ==
    \E c \in Channels :
        /\ event = Event("failed", c)
        /\ Registered(c)
        /\ DueAndActive(CHANNEL_STATES[c])

\* C8: whatever fails while the tick handles one channel, the tick goes on
\* with the rest of its snapshot and the scheduler keeps running
C8_FailureIsolation ==
    [][\A c \in Channels :
         (/\ event'.ch = c
          /\ event'.kind \in {"unresolved", "generation_raised", "forbidden", "failed"})
         => /\ pc' # "stopped"
            /\ queue' = Tail(queue)]_vars

\* C9: the tick's handling of an entry that a command removed while the tick
\* was suspended, its own deregistration included, raises nothing
C9_ConcurrentRemovalTolerated ==
    [][\A c \in Channels :
         (/\ Pending(c) /\ Current = c
          /\ orphan[c] # NoObj
          /\ event'.ch = c
          /\ event'.kind # "generation_raised")
         => pc' # "stopped"]_vars

\* C10: when a channel was removed while a call for it was in flight, the
\* return of that call leaves the registry as it is: the channel stays absent
C10_NoRecreation ==
    [][\A c \in Channels :
         (/\ pc \in {"gen", "send"} /\ Current = c
          /\ orphan[c] # NoObj
          /\ event'.ch = c)
         => /\ event'.kind # "forbidden" => UNCHANGED <<CHANNEL_STATES, keyOrder>>
            /\ ~Registered(c) => ~Registered(c)']_vars

\* a send has succeeded for a channel that was removed while it was in flight
C10_Witness ==
    \E c \in Channels :
        /\ event = Event("sent", c)
        /\ ~Registered(c)
        /\ ~InSeq(keyOrder, c)

---------------------------------------------------------------------------
\* Properties of the gateway functions (checked under SpecGateway)

\* the attempt met a rate limit or a connection failure
Transient(o) ==
    \/ o.kind = "ClientConnectorError"
    \/ o.kind = "response" /\ o.status = 429

\* the call of the named function has returned
Returned(fn) == call.fn = fn /\ call.done

\* C11: when every attempt meets a 429 or a connection failure, in any mix,
\* fetch_with_backoff makes 3 requests, sleeps 1, 2 and 4 seconds after them
\* and returns the terminal error; no call makes more than 3 requests, and a
\* call that has not returned can always return
C11_RetryBudget ==
    /\ (Returned("fetch") /\ \A i \in 1..3 : Transient(call.script[i]))
          => /\ call.ret.requests = 3
             /\ call.ret.sleeps = <<1, 2, 4>>
             /\ call.ret.value.result = None
             /\ call.ret.value.error =
                  Str("Error: Failed to connect to AI service after multiple retries.")
    /\ call.done => call.ret.requests <= 3
    /\ (call.fn = "fetch" /\ ~call.done) => ENABLED FetchReturn

\* a call that met a connection failure, then two rate limits, has returned
C11_Witness ==
    /\ Returned("fetch")
    /\ call.script[1].kind = "ClientConnectorError"
    /\ call.script[2].kind = "response" /\ call.script[2].status = 429
    /\ call.script[3].kind = "response" /\ call.script[3].status = 429
    /\ call.ret.requests = 3

\* C12: the first attempt answered with a status other than 200 and 429 ends
\* the call: the error names the status, no request and no wait follows
C12_NonTransientStatus ==
    Returned("fetch") =>
        \A i \in 1..3 :
            (/\ call.script[i].kind = "response"
             /\ call.script[i].status \notin {200, 429}
             /\ \A j \in 1..(i - 1) : Transient(call.script[j]))
            => /\ call.ret.requests = i
               /\ Len(call.ret.sleeps) = i - 1
               /\ call.ret.value.result = None
               /\ call.ret.value.error =
                    Str("Error: AI service returned status "
                        \o ToString(call.script[i].status))

\* a call answered 404 at once has returned, though the service would have
\* answered 200 to a second request
C12_Witness ==
    /\ Returned("fetch")
    /\ call.script[1].kind = "response" /\ call.script[1].status = 404
    /\ call.script[2].kind = "response" /\ call.script[2].status = 200
    /\ call.ret.requests = 1
    /\ call.ret.sleeps = <<>>

\* the script with every timeout replaced by a connection failure
AsConnectionFailure(script) ==
    [i \in DOMAIN script |->
        IF script[i].kind = "TimeoutError"
        THEN [script[i] EXCEPT !.kind = "ClientConnectorError"]
        ELSE script[i]]

\* C13: a timeout is handled like a connection failure: the call returns what
\* it returns when each timeout is a connection failure instead
C13_TimeoutRetried ==
    Returned("fetch") =>
        LET r == fetch_with_backoff(AsConnectionFailure(call.script)) IN
        /\ call.ret.requests = r.requests
        /\ call.ret.sleeps = r.sleeps
        /\ call.ret.value = [result |-> r.result, error |-> r.error]

\* C14: without a key both generation functions return the not-configured
\* error and make no request
C14_NotConfigured ==
    ~GEMINI_API_KEY =>
        /\ Returned("generate") =>
              /\ call.ret.value = Str("Error: Gemini API Key not configured.")
              /\ call.ret.requests = 0
              /\ call.ret.sleeps = <<>>
        /\ Returned("parse") =>
              /\ call.ret.value =
                   [data |-> None, error |-> Str("Error: Gemini API Key not configured.")]
              /\ call.ret.requests = 0
              /\ call.ret.sleeps = <<>>

\* generate_announcement_content has returned without a key, in a run where
\* the service would have answered with a text
C14_Witness ==
    /\ ~GEMINI_API_KEY
    /\ Returned("generate")
    /\ call.script[1] = [kind |-> "response", status |-> 200,
                         body |-> BodyWithText("generated")]
    /\ call.ret.requests = 0

\* C15: a 200 body without a text at candidates[0].content.parts[0].text
\* makes generate_announcement_content return the malformed-response error
C15_MalformedResponse ==
    (/\ Returned("generate")
     /\ GEMINI_API_KEY
     /\ call.script[1].kind = "response"
     /\ call.script[1].status = 200
     /\ ExtractText(call.script[1].body, None).t # "str")
    => call.ret.value = Str("Error: AI response was not in the expected format.")

---------------------------------------------------------------------------
\* Properties of the command handlers

\* C16: /manual with an interval <= 0, or one of less than 10 whole seconds,
\* is refused and leaves the registry as it is
C16_ManualRejects ==
    [][\A c \in Channels, m \in Messages, h \in HourInputs :
         (/\ h[1] <= 0 \/ (h[1] * 3600) \div h[2] < 10
          /\ manual_schedule(c, m, h))
         => /\ UNCHANGED <<CHANNEL_STATES, keyOrder>>
            /\ event' = Event("manual_rejected", c)]_vars

\* a /manual was refused in a channel that has an entry, and the entry is there
C16_Witness ==
    \E c \in Channels :
        /\ event = Event("manual_rejected", c)
        /\ Registered(c)
        /\ InSeq(keyOrder, c)

\* the interval the service derived from the request is a number below 10
ShortInterval(script) ==
    /\ script[1].kind = "response"
    /\ script[1].status = 200
    /\ LET derived == PyGet(json_loads(ExtractText(script[1].body, Str("{}"))),
                            "interval_seconds", None)
       IN  derived.t = "num" /\ derived.v < 10

\* C17: /automatic leaves the registry as it is when the parse fails and
\* when the interval derived from the request is below 10 seconds
C17_AutomaticRejects ==
    [][\A c \in Channels, s \in LiveParseScripts :
         LET parsed == parse_automatic_prompt(TRUE, s) IN
         (/\ \/ Truthy(parsed.error)
             \/ IsExc(parsed.data)
             \/ ShortInterval(s)
          /\ automatic_schedule(c, parsed))
         => UNCHANGED <<CHANNEL_STATES, keyOrder>>]_vars

\* the entry is as /ignore_stack_logic leaves it: the override is on and the
\* last send lies 15 seconds or more before the last activity
FreshOverride(st) ==
    /\ st.ignore_stack_logic
    /\ st.last_channel_activity_time - st.last_bot_send_time >= 15

\* C18: /ignore_stack_logic with the password leaves the entry with the
\* override on, interval 10, the fixed text and a send time more than the
\* interval in the past; a tick that comes to such an entry, the channel
\* resolving, dispatches the text, with no message seen in between
C18_OverrideFiresNext ==
    [][\A c \in Channels :
         /\ ignore_stack_logic(c, "12344321")
              => LET st == CHANNEL_STATES'[c] IN
                 /\ st.ignore_stack_logic
                 /\ st.interval_seconds = 10
                 /\ st.scheduled_message_content = "Hi"
                 /\ ~st.is_automatic
                 /\ now' - st.last_bot_send_time > st.interval_seconds
                 /\ FreshOverride(st)
         /\ (/\ Evaluating(c)
             /\ FreshOverride(TickObj(c))
             /\ exists[TickObj(c).scheduled_channel_id])
              => /\ DispatchTo(c)
                 /\ msg' = "Hi"]_vars

\* the tick dispatches for an entry at the very time the override was given
C18_Witness ==
    \E c \in Channels :
        /\ event = Event("dispatch", c)
        /\ pc = "send"
        /\ msg = "Hi"
        /\ FreshOverride(TickObj(c))
        /\ TickObj(c).last_channel_activity_time = now

\* what the steps of the /test handler leave in event
TestKinds ==
    {"test_no_schedule", "test_started", "test_generated", "test_sent",
     "test_forbidden", "test_failed", "test_raised"}

\* C19: /test on a channel with an entry starts the dispatch of its content
\* at once, due or not; no step of the handler, however the send ends,
\* changes the registry or what the due test gives; without an entry nothing
\* is dispatched
C19_TestFireFrame ==
    [][\A c \in Channels :
         /\ (event'.ch = c /\ event'.kind \in TestKinds)
              => /\ UNCHANGED <<CHANNEL_STATES, keyOrder, now>>
                 /\ \A d \in Channels :
                      Registered(d) => (Due(CHANNEL_STATES[d]) <=> Due(CHANNEL_STATES[d])')
         /\ (test_schedule(c) /\ Registered(c))
              => /\ test'.ch = c
                 /\ IF CHANNEL_STATES[c].is_automatic
                    THEN test'.pc = "gen"
                    ELSE /\ test'.pc = "send"
                         /\ test'.msg = CHANNEL_STATES[c].scheduled_message_content
         /\ (test_schedule(c) /\ ~Registered(c))
              => /\ UNCHANGED test
                 /\ test'.pc = "idle"]_vars

\* a /test has sent the content of an entry whose send time is still the
\* earlier one
C19_Witness ==
    \E c \in Channels :
        /\ event = Event("test_sent", c)
        /\ Registered(c)
        /\ test.msg = CHANNEL_STATES[c].scheduled_message_content
        /\ CHANNEL_STATES[c].last_bot_send_time < now

\* C20: /status changes nothing, and the time until the next send it reports
\* is never negative, in any state
C20_StatusReadOnly ==
    [][/\ \A c \in Channels :
            event' = Event("status", c)
                => UNCHANGED <<CHANNEL_STATES, keyOrder, now, exists, commands>>
       /\ \A c \in Channels :
            /\ get_status(c).time_until_next >= 0
            /\ get_status(c)'.time_until_next >= 0]_vars

\* /status has answered for an entry that is overdue
C20_Witness ==
    \E c \in Channels :
        /\ event = Event("status", c)
        /\ Registered(c)
        /\ now - CHANNEL_STATES[c].last_bot_send_time > CHANNEL_STATES[c].interval_seconds
        /\ get_status(c).time_until_next = 0

---------------------------------------------------------------------------
\* Properties of the registry operations (checked under SpecScheduled, where
\* the only steps that count as commands are the two stops)

\* C21: /stop channel takes the channel's entry out of the registry and
\* leaves every other entry as it is; for a channel without an entry it
\* changes nothing, so a second stop is a no-op; /stop all leaves the
\* registry empty
C21_StopRemovesExactly ==
    [][/\ \A c \in Channels :
            stop_channel(c)
              => /\ ~Registered(c)'
                 /\ keyOrder' = Without(keyOrder, c)
                 /\ \A d \in Channels \ {c} : CHANNEL_STATES'[d] = CHANNEL_STATES[d]
                 /\ ~Registered(c) => UNCHANGED <<CHANNEL_STATES, keyOrder, commands>>
                 /\ (ENABLED stop_channel(c))'
                 /\ pc' = pc
       /\ stop_all
              => /\ \A d \in Channels : ~Registered(d)'
                 /\ keyOrder' = <<>>]_vars

\* one of two schedules was stopped and the other one is in the registry
C21_Witness ==
    \E c, d \in Channels :
        /\ commands = 1
        /\ ~Registered(c)
        /\ Registered(d)
        /\ keyOrder = <<d>>

\* C22: on_message sets last_activity_time of the entry of the message's
\* channel, if there is one, and nothing else: no other field, no other
\* entry, and no entry is created
C22_ActivityFrame ==
    [][\A c \in Channels, s \in BOOLEAN, f \in BOOLEAN :
         on_message(c, s, f)
           => /\ keyOrder' = keyOrder
              /\ \A d \in Channels \ {c} : CHANNEL_STATES'[d] = CHANNEL_STATES[d]
              /\ ~Registered(c) => ~Registered(c)'
              /\ Registered(c)
                   => CHANNEL_STATES'[c] =
                        [CHANNEL_STATES[c] EXCEPT !.last_channel_activity_time =
                            CHANNEL_STATES'[c].last_channel_activity_time]]_vars

\* a message has moved last_activity_time of one entry, and the channel
\* without a schedule has none
C22_Witness ==
    \E c, d \in Channels :
        /\ now > 0
        /\ Registered(c)
        /\ CHANNEL_STATES[c].last_channel_activity_time = now
        /\ commands = 0
        /\ ~Registered(d)
        /\ keyOrder = <<c>>

\* C28: in a channel with an entry every message of an author other than the
\* bot moves last_activity_time, whether or not a filter acted on it
C28_FiltersApart ==
    [][\A c \in Channels, f \in BOOLEAN :
         (on_message(c, FALSE, f) /\ Registered(c))
           => CHANNEL_STATES'[c].last_channel_activity_time = now]_vars

---------------------------------------------------------------------------
\* Properties of /status after a scheduling command (checked under SpecStatus)

\* an interval of s >= 10 seconds in the largest unit that divides it
InLargestUnit(s) ==
    IF s % 3600 = 0 THEN ToString(s \div 3600) \o " hours"
    ELSE IF s % 60 = 0 THEN ToString(s \div 60) \o " minutes"
    ELSE ToString(s) \o " seconds"

\* the step is a scheduling command given in channel c that went through
Schedules(c) ==
    /\ commands' = commands + 1
    /\ \/ \E m \in Messages, h \in DisplayHours \cup HourInputs : manual_schedule(c, m, h)
       \/ \E r \in ParseWithKey : automatic_schedule(c, r)
       \/ \E p \in Passwords : ignore_stack_logic(c, p)

\* C23: after /manual with 1 hour, /status gives "1 hours" and the manual
\* mode; after any scheduling command it gives the interval that command
\* stored, in hours if a multiple of 3600, else in minutes if a multiple of
\* 60, else in seconds, and keeps giving it until the next scheduling command
C23_StatusRoundTrip ==
    [][\A c \in Channels :
         /\ commands' = commands + 1
              => /\ \A m \in Messages :
                      manual_schedule(c, m, <<1, 1>>)
                        => /\ get_status(c)'.status = "Running"
                           /\ get_status(c)'.interval = "1 hours"
                           /\ get_status(c)'.mode = "Manual (Fixed)"
                 /\ \A m \in Messages, h \in DisplayHours :
                      manual_schedule(c, m, h)
                        => get_status(c)'.interval =
                             InLargestUnit((h[1] * 3600) \div h[2])
                 /\ Schedules(c)
                        => get_status(c)'.interval =
                             InLargestUnit(CHANNEL_STATES'[c].interval_seconds)
         /\ (Registered(c) /\ get_status(c)'.interval # get_status(c).interval)
                => Schedules(c)]_vars

\* /status was asked after a /manual with 1 hour and gives "1 hours"
C23_Witness ==
    \E c \in Channels :
        /\ event = Event("status", c)
        /\ Registered(c)
        /\ CHANNEL_STATES[c].interval_seconds = 3600
        /\ get_status(c).interval = "1 hours"
        /\ get_status(c).mode = "Manual (Fixed)"

---------------------------------------------------------------------------
\* Properties of the entries in the registry

\* C24: every entry in the registry has interval_seconds >= 10, in every
\* state the commands, the messages and the tick can lead to
C24_IntervalAtLeast10 ==
    \A c \in Channels :
        Registered(c) => CHANNEL_STATES[c].interval_seconds >= 10

\* an entry is in the registry whose interval the service derived as 5 and
\* the parse raised to 10
C24_Witness ==
    \E c \in Channels :
        /\ Registered(c)
        /\ CHANNEL_STATES[c].is_automatic
        /\ CHANNEL_STATES[c].interval_seconds = 10

\* C25: last_send_time of an entry in the registry never goes down, whatever
\* the tick, /manual, /automatic or a message does; the one step that lowers
\* it is /ignore_stack_logic with its rewind
C25_SendTimeMonotone ==
    [][\A c \in Channels :
         (/\ Registered(c)
          /\ Registered(c)'
          /\ CHANNEL_STATES'[c].last_bot_send_time
               < CHANNEL_STATES[c].last_bot_send_time)
         => ignore_stack_logic(c, "12344321")]_vars

\* the override was given for an entry that /automatic had made at time 0,
\* and has set its send time back from 0
C25_Witness ==
    \E c \in Channels :
        /\ Registered(c)
        /\ CHANNEL_STATES[c].ignore_stack_logic
        /\ CHANNEL_STATES[c].ai_prompt = "fact"
        /\ CHANNEL_STATES[c].last_bot_send_time < 0

\* C26: a /manual or /automatic that goes through leaves the entry with
\* ignore_idle_check = false, whatever it was; the flag of an entry becomes
\* true only by /ignore_stack_logic
C26_ScheduleResetsOverride ==
    [][\A c \in Channels :
         /\ commands' = commands + 1
              => /\ \A m \in Messages, h \in HourInputs :
                      manual_schedule(c, m, h)
                        => /\ Registered(c)'
                           /\ ~CHANNEL_STATES'[c].ignore_stack_logic
                 /\ \A r \in ParseWithKey :
                      automatic_schedule(c, r)
                        => /\ Registered(c)'
                           /\ ~CHANNEL_STATES'[c].ignore_stack_logic
         /\ (CHANNEL_STATES'[c].ignore_stack_logic /\ ~CHANNEL_STATES[c].ignore_stack_logic)
                => ignore_stack_logic(c, "12344321")]_vars

\* /automatic was given for an entry the override had made (its text is
\* still "Hi"), and the override is off
C26_Witness ==
    \E c \in Channels :
        /\ Registered(c)
        /\ CHANNEL_STATES[c].is_automatic
        /\ CHANNEL_STATES[c].scheduled_message_content = "Hi"
        /\ ~CHANNEL_STATES[c].ignore_stack_logic

---------------------------------------------------------------------------
\* Properties of anti-stacking across ticks

\* C27: a message of another author seen while the send to its channel is
\* in flight is not lost: when the send has returned, the entry does not
\* count as idle
C27_ActivityInFlightKept ==
    [][\A c \in Channels :
         (/\ event = Event("heard", c)
          /\ event' = Event("sent", c)
          /\ Registered(c)')
         => ~(/\ ~CHANNEL_STATES'[c].ignore_stack_logic
              /\ CHANNEL_STATES'[c].last_channel_activity_time
                   <= CHANNEL_STATES'[c].last_bot_send_time)]_vars

\* C29: the bot's own messages are no activity: on_message for one changes
\* no entry; when a send for an entry without the override has returned,
\* last_activity_time <= last_send_time; that stays so until a message of
\* another author or a scheduling command; and the tick suppresses the due
\* cycle of an entry in that condition
C29_OwnMessagesNoActivity ==
    [][/\ (CHANNEL_STATES' # CHANNEL_STATES \/ keyOrder' # keyOrder)
            => \A c \in Channels :
                 /\ \A f \in BOOLEAN : ~on_message(c, TRUE, f)
                 /\ (/\ Registered(c) /\ Registered(c)'
                     /\ ~CHANNEL_STATES[c].ignore_stack_logic
                     /\ CHANNEL_STATES[c].last_channel_activity_time
                          <= CHANNEL_STATES[c].last_bot_send_time
                     /\ CHANNEL_STATES'[c].last_channel_activity_time
                          > CHANNEL_STATES'[c].last_bot_send_time)
                      => \/ on_message(c, FALSE, FALSE)
                         \/ Schedules(c)
       /\ event'.kind = "sent"
            => \A c \in Channels :
                 (/\ event'.ch = c
                  /\ Registered(c)'
                  /\ orphan[c] = NoObj
                  /\ ~CHANNEL_STATES'[c].ignore_stack_logic)
                 => CHANNEL_STATES'[c].last_channel_activity_time
                      <= CHANNEL_STATES'[c].last_bot_send_time
       /\ pc = "loop"
            => \A c \in Channels :
                 (/\ Evaluating(c)
                  /\ StillRegistered(c)
                  /\ ~CHANNEL_STATES[c].ignore_stack_logic
                  /\ CHANNEL_STATES[c].last_channel_activity_time
                       <= CHANNEL_STATES[c].last_bot_send_time
                  /\ now - CHANNEL_STATES[c].last_bot_send_time
                       >= CHANNEL_STATES[c].interval_seconds)
                 => /\ event' = Event("suppressed", c)
                    /\ NoCall]_vars

\* a send has returned for an entry without the override that had activity
\* before the send, and the entry now counts as idle
C29_Witness ==
    \E c \in Channels :
        /\ event = Event("sent", c)
        /\ Registered(c)
        /\ ~CHANNEL_STATES[c].ignore_stack_logic
        /\ CHANNEL_STATES[c].last_bot_send_time = now
        /\ CHANNEL_STATES[c].last_channel_activity_time
             <= CHANNEL_STATES[c].last_bot_send_time

\* no channel occurs twice in s
NoRepeat(s) == \A i, j \in 1..Len(s) : s[i] = s[j] => i = j

\* C30: the tick starts a dispatch for an entry only when interval_seconds
\* or more have passed since the last_send_time the entry holds (which the
\* last successful dispatch wrote, if no command came after it); its snapshot
\* holds each channel once and only shrinks, so one tick does not come back
\* to a channel it has sent to
C30_NoDuplicateSends ==
    [][/\ \A c \in Channels :
            (pc = "loop" /\ pc' \in {"gen", "send"} /\ Head(queue) = c)
              => now - TickObj(c).last_bot_send_time >= TickObj(c).interval_seconds
       /\ NoRepeat(queue')
       /\ pc # "idle" => (queue' = queue \/ queue' = Tail(queue) \/ queue' = <<>>)
       /\ \A c \in Channels :
            event' = Event("sent", c) => ~InSeq(queue', c)]_vars

\* the tick starts the second dispatch for an overriding entry 10 seconds
\* after the send time the first one wrote (at time 0, where only a send that
\* returned can have written it)
C30_Witness ==
    \E c \in Channels :
        /\ event = Event("dispatch", c)
        /\ pc = "send"
        /\ orphan[c] = NoObj
        /\ CHANNEL_STATES[c].ignore_stack_logic
        /\ CHANNEL_STATES[c].last_bot_send_time = 0
        /\ now = CHANNEL_STATES[c].interval_seconds

---------------------------------------------------------------------------
\* Properties of the generated mode

\* the texts generate_announcement_content returns when the call of the
\* service ended in an error
GenerationErrorTexts ==
    {generate_announcement_content(TRUE, s).v :
        s \in {x \in LiveScripts : Truthy(fetch_with_backoff(x).error)}}

\* C32: when the generation for a due entry comes back with an error text,
\* the tick goes on to send that text and leaves the registry as it is; when
\* that send returns, last_send_time is written as after any send
C32_GenerationErrorDispatched ==
    [][/\ pc = "gen"
            => \A r \in GenerationWithKey :
                 (r.t = "str" /\ r.v \in GenerationErrorTexts /\ GenReturn(r))
                 => /\ pc' = "send"
                    /\ msg' = r.v
                    /\ queue' = queue
                    /\ UNCHANGED <<CHANNEL_STATES, keyOrder>>
       /\ (pc = "send" /\ msg \in GenerationErrorTexts)
            => \A c \in Channels :
                 (event' = Event("sent", c) /\ StillRegistered(c))
                 => CHANNEL_STATES' =
                      [CHANNEL_STATES EXCEPT ![c].last_bot_send_time = now]]_vars

\* the tick is sending the error text of a failed generation for an entry in
\* generated mode
C32_Witness ==
    \E c \in Channels :
        /\ event = Event("dispatch", c)
        /\ pc = "send"
        /\ msg \in GenerationErrorTexts
        /\ Registered(c)
        /\ CHANNEL_STATES[c].is_automatic

\* C33: a /manual or /automatic that goes through leaves the entry idle for
\* anti-stacking (last_activity_time <= last_send_time), so that its first
\* due cycle is suppressed unless a message is seen before
C33_FirstCycleSuppressed ==
    [][commands' = commands + 1
         => \A c \in Channels :
              (\/ \E m \in Messages, h \in AcceptedHours : manual_schedule(c, m, h)
               \/ \E r \in AcceptedParses : automatic_schedule(c, r))
              => CHANNEL_STATES'[c].last_channel_activity_time
                   <= CHANNEL_STATES'[c].last_bot_send_time]_vars

---------------------------------------------------------------------------
\* Properties of the parse (checked under SpecGateway)

\* the first attempt is answered 200 with a JSON object whose interval is a
\* number below 10 or is missing
IntervalShortOrMissing(script) ==
    /\ script[1].kind = "response"
    /\ script[1].status = 200
    /\ LET parsed == json_loads(ExtractText(script[1].body, Str("{}")))
       IN  /\ parsed.t = "dict"
           /\ \/ "interval_seconds" \notin DOMAIN parsed.v
              \/ /\ parsed.v["interval_seconds"].t = "num"
                 /\ parsed.v["interval_seconds"].v < 10

\* C34: a result parse_automatic_prompt returns without an error has an
\* interval_seconds >= 10; an interval below 10 and a missing one are
\* returned as 10, without an error
C34_ParseFloor ==
    (Returned("parse") /\ GEMINI_API_KEY /\ call.ret.value.data.t # "exc")
    => /\ call.ret.value.error.t = "none"
         => /\ call.ret.value.data.t = "dict"
            /\ "interval_seconds" \in DOMAIN call.ret.value.data.v
            /\ call.ret.value.data.v["interval_seconds"].t = "num"
            /\ call.ret.value.data.v["interval_seconds"].v >= 10
       /\ IntervalShortOrMissing(call.script)
         => /\ call.ret.value.error.t = "none"
            /\ call.ret.value.data.t = "dict"
            /\ call.ret.value.data.v["interval_seconds"] = Num(10)

\* the parse has returned 10 seconds for a request the service derived 5
\* seconds from
C34_Witness ==
    /\ Returned("parse")
    /\ GEMINI_API_KEY
    /\ call.script[1] = [kind |-> "response", status |-> 200, body |->
          BodyWithText("{\"announcement_prompt\": \"fact\", \"interval_seconds\": 5}")]
    /\ call.ret.value.error.t = "none"
    /\ call.ret.value.data.v["interval_seconds"] = Num(10)

---------------------------------------------------------------------------
\* Progress of the scheduler (checked under SpecLive)

\* the entry of c is in the registry and due
DueNow(c) ==
    /\ Registered(c)
    /\ now - CHANNEL_STATES[c].last_bot_send_time >= CHANNEL_STATES[c].interval_seconds

\* the tick has just evaluated the entry of c
Evaluated(c) ==
    /\ event.ch = c
    /\ event.kind \in {"not_due", "suppressed", "unresolved", "generate", "dispatch"}

\* the tick is sending the message of the entry of c
Dispatching(c) == pc = "send" /\ queue # <<>> /\ Head(queue) = c

\* C31: an entry that is due is evaluated by a tick sooner or later, unless
\* it leaves the registry; and a due entry with the override whose channel
\* resolves is dispatched sooner or later, unless it leaves the registry or
\* its channel is deleted, however long the calls for other channels take
C31_EventualProcessing ==
    \A c \in Channels :
        /\ DueNow(c) ~> (Evaluated(c) \/ ~Registered(c))
        /\ (DueNow(c) /\ CHANNEL_STATES[c].ignore_stack_logic /\ exists[c])
             ~> (Dispatching(c) \/ ~Registered(c) \/ ~exists[c])

\* the same progress for as long as no exception has ended the loop
C31_ProcessingWhileLoopRuns ==
    \A c \in Channels :
        /\ DueNow(c) ~> (Evaluated(c) \/ ~Registered(c) \/ pc = "stopped")
        /\ (DueNow(c) /\ CHANNEL_STATES[c].ignore_stack_logic /\ exists[c])
             ~> (Dispatching(c) \/ ~Registered(c) \/ ~exists[c] \/ pc = "stopped")

====
